---- MODULE Spec2Model ----
(***************************************************************************)
(* SpaceKitService (src/service/index.js): the TLS / net dispatchers, the  *)
(* relay authentication handshake and the hostname -> relay map.           *)
(*                                                                         *)
(* Node runs every handler and every callback to completion, so each       *)
(* handler and each callback is one atomic action; the asynchronous calls  *)
(* (db.run, Bcrypt.compare, Dns.resolve4, the WebSocket 'close' event) are *)
(* the points at which other handlers interleave.                          *)
(***************************************************************************)
EXTENDS Integers, Sequences, FiniteSets, TLC

VARIABLES config, relays, ws, last

vars == <<config, relays, ws, last>>

(* ------------------------------ bounds -------------------------------- *)
\* relay WebSocket connections accepted in one behaviour
MaxConns == 2

(* ------------------------------ inputs -------------------------------- *)
\* `config` objects the service is constructed with: the usual one, with DNS
\* updates on, and one whose api label has a dot in it, so that the relay
\* hostname api.alice.kit.io spells apiHostname, with DNS updates off
Configs ==
    { [host |-> "kit.io", api |-> "api", web |-> "www", dnsZone |-> TRUE],
      [host |-> "kit.io", api |-> "api.alice", web |-> "www", dnsZone |-> FALSE] }

\* the x-spacekit-subdomain, -username and -apikey headers of an upgrade
\* request; apikey is <<>> when the header is absent (undefined)
Headers ==
    { [subdomain |-> "app", username |-> "alice",  apikey |-> <<"s3cret">>],
      [subdomain |-> "api", username |-> "alice",  apikey |-> <<"s3cret">>],
      [subdomain |-> "app", username |-> "alice",  apikey |-> <<"wrong">>],
      [subdomain |-> "app", username |-> "alice",  apikey |-> << >>],
      [subdomain |-> "app", username |-> "nobody", apikey |-> <<"s3cret">>] }

\* request paths handed over by the net proxy server
Paths == {"/foo", "/.well-known/acme-challenge/xyz", "/.well-known/acme-challenge"}

(* --------------------------- collaborators ---------------------------- *)
\* bcrypt hash of a cleartext key (one fixed salt)
Hash(key) == "$2b$" \o key

\* the users table: username -> api_key (hashed)
Users == ("alice" :> Hash("s3cret"))

\* result.rows of `SELECT id, api_key FROM users WHERE username = $1`
dbRows(username) ==
    IF username \in DOMAIN Users
    THEN << [id |-> 1, api_key |-> Users[username]] >>
    ELSE << >>

\* Bcrypt.compare(apikey, hash, cb): err when the data argument is missing,
\* otherwise pass = (the key hashes to `hash`)
bcryptCompare(apikey, hash) ==
    IF apikey = << >>
    THEN [err |-> TRUE, pass |-> FALSE]
    ELSE [err |-> FALSE, pass |-> (Hash(apikey[1]) = hash)]

(* ------------------------------ service ------------------------------- *)
apiHostname == config.api \o "." \o config.host
webHostname == config.web \o "." \o config.host

\* `${subdomain}.${username}.${this.config.host}`
relayHostname(subdomain, username) ==
    subdomain \o "." \o username \o "." \o config.host

\* hostnames the proxy servers hand in (SNI / Host header): the service's
\* own and those of the relays of the users table
Hostnames ==
    {config.host, apiHostname, webHostname}
        \cup { relayHostname(h.subdomain, h.username) :
                   h \in {x \in Headers : x.username \in DOMAIN Users} }

\* Map.prototype.get: 0 stands for undefined
NoRelay == 0
MapGet(m, h) == IF h \in DOMAIN m THEN m[h] ELSE NoRelay
MapSet(m, h, r) == [k \in DOMAIN m \cup {h} |-> IF k = h THEN r ELSE m[k]]
MapDelete(m, h) == [k \in DOMAIN m \ {h} |-> m[k]]

\* String.prototype.startsWith
startsWith(s, prefix) ==
    /\ Len(s) >= Len(prefix)
    /\ SubSeq(s, 1, Len(prefix)) = prefix

AcmePrefix == "/.well-known/acme-challenge/"

\* mutant of errorResponse: the blank line that ends the header is left out
errorResponse_NoBlankLine(message) ==
    "HTTP/1.1 500 " \o message \o "\r\n" \o message

\* socket.end(`HTTP/1.1 500 ${message}\r\n\r\n${message}`)
errorResponse(message) ==
    "HTTP/1.1 500 " \o message \o "\r\n\r\n" \o message

redirectResponse(hostname, path) ==
    "HTTP/1.1 301 Moved Permanently\r\n" \o
    "Location: https://" \o hostname \o path \o "\r\n\r\n"

\* `last` is what the step just taken did with the socket it was handed,
\* NoDispatch when that step was not a dispatch
NoDispatch ==
    [op |-> "none", hostname |-> "", path |-> "", to |-> "none",
     relay |-> NoRelay, tag |-> "", port |-> 0, data |-> ""]

Dispatch(op, hostname, path, to, relay, tag, port, data) ==
    [op |-> op, hostname |-> hostname, path |-> path,
     to |-> to, relay |-> relay, tag |-> tag, port |-> port, data |-> data]

Init ==
    /\ config \in Configs
    /\ relays = [h \in {} |-> NoRelay]
    /\ ws = << >>
    /\ last = NoDispatch

\* mutant of handleTlsConnection: the relay map is consulted first
handleTlsConnection_RelayFirst(hostname) ==
    /\ last' =
         LET relay == MapGet(relays, hostname) IN
         IF relay # NoRelay
         THEN Dispatch("tls", hostname, "", "relay", relay, hostname, 443, "")
         ELSE IF hostname = apiHostname
         THEN Dispatch("tls", hostname, "", "api", NoRelay, "", 0, "")
         ELSE IF hostname = webHostname
         THEN Dispatch("tls", hostname, "", "web", NoRelay, "", 0, "")
         ELSE Dispatch("tls", hostname, "", "end", NoRelay, "", 0,
                       errorResponse("Relay not connected"))
    /\ UNCHANGED <<config, relays, ws>>

\* mutant of handleTlsConnection: a socket for a hostname without a relay is
\* kept while a handshake for the hostname is under way
handleTlsConnection_QueueWhilePending(hostname) ==
    /\ last' =
         IF hostname = apiHostname
         THEN Dispatch("tls", hostname, "", "api", NoRelay, "", 0, "")
         ELSE IF hostname = webHostname
         THEN Dispatch("tls", hostname, "", "web", NoRelay, "", 0, "")
         ELSE LET relay == MapGet(relays, hostname) IN
              IF relay # NoRelay
              THEN Dispatch("tls", hostname, "", "relay", relay, hostname, 443, "")
              ELSE IF \E c \in 1..Len(ws) :
                         ws[c].hostname = hostname /\ ws[c].pc # "done"
              THEN Dispatch("tls", hostname, "", "queued", NoRelay, "", 0, "")
              ELSE Dispatch("tls", hostname, "", "end", NoRelay, "", 0,
                            errorResponse("Relay not connected"))
    /\ UNCHANGED <<config, relays, ws>>

\* mutant of handleTlsConnection: a relay serves one socket and is dropped
handleTlsConnection_OneShot(hostname) ==
    /\ last' =
         IF hostname = apiHostname
         THEN Dispatch("tls", hostname, "", "api", NoRelay, "", 0, "")
         ELSE IF hostname = webHostname
         THEN Dispatch("tls", hostname, "", "web", NoRelay, "", 0, "")
         ELSE LET relay == MapGet(relays, hostname) IN
              IF relay # NoRelay
              THEN Dispatch("tls", hostname, "", "relay", relay, hostname, 443, "")
              ELSE Dispatch("tls", hostname, "", "end", NoRelay, "", 0,
                            errorResponse("Relay not connected"))
    /\ relays' = IF hostname \in {apiHostname, webHostname}
                 THEN relays
                 ELSE MapDelete(relays, hostname)
    /\ UNCHANGED <<config, ws>>

(* -------------------------- handleTlsConnection ------------------------ *)
handleTlsConnection(hostname) ==
    /\ last' =
         IF hostname = apiHostname
         THEN Dispatch("tls", hostname, "", "api", NoRelay, "", 0, "")
         ELSE IF hostname = webHostname
         THEN Dispatch("tls", hostname, "", "web", NoRelay, "", 0, "")
         ELSE LET relay == MapGet(relays, hostname) IN
              IF relay # NoRelay
              THEN Dispatch("tls", hostname, "", "relay", relay, hostname, 443, "")
              ELSE Dispatch("tls", hostname, "", "end", NoRelay, "", 0,
                            errorResponse("Relay not connected"))
    /\ UNCHANGED <<config, relays, ws>>

\* the else branch of handleNetConnection, for the mutants below
netRelayBranch(hostname, path, port, checkAcme) ==
    IF checkAcme /\ ~startsWith(path, AcmePrefix)
    THEN Dispatch("net", hostname, path, "end", NoRelay, "", 0,
                  errorResponse("Only ACME requests supported"))
    ELSE LET relay == MapGet(relays, hostname) IN
         IF relay # NoRelay
         THEN Dispatch("net", hostname, path, "relay", relay, hostname, port, "")
         ELSE Dispatch("net", hostname, path, "end", NoRelay, "", 0,
                       errorResponse("Relay not connected"))

netRedirects(hostname, path, otherwise) ==
    IF hostname = config.host
    THEN Dispatch("net", hostname, path, "end", NoRelay, "", 0,
                  redirectResponse(webHostname, path))
    ELSE IF hostname = apiHostname \/ hostname = webHostname
    THEN Dispatch("net", hostname, path, "end", NoRelay, "", 0,
                  redirectResponse(hostname, path))
    ELSE otherwise

\* mutant of handleNetConnection: ACME requests are forwarded before the
\* service's own hostnames are looked at
handleNetConnection_AcmeFirst(hostname, path) ==
    /\ last' =
         IF startsWith(path, AcmePrefix) /\ MapGet(relays, hostname) # NoRelay
         THEN netRelayBranch(hostname, path, 80, TRUE)
         ELSE netRedirects(hostname, path, netRelayBranch(hostname, path, 80, TRUE))
    /\ UNCHANGED <<config, relays, ws>>

\* mutant of handleNetConnection: the path is not looked at
handleNetConnection_NoAcmeCheck(hostname, path) ==
    /\ last' = netRedirects(hostname, path, netRelayBranch(hostname, path, 80, FALSE))
    /\ UNCHANGED <<config, relays, ws>>

\* mutant of handleNetConnection: the socket is tagged with the TLS port
handleNetConnection_Port443(hostname, path) ==
    /\ last' = netRedirects(hostname, path, netRelayBranch(hostname, path, 443, TRUE))
    /\ UNCHANGED <<config, relays, ws>>

(* -------------------------- handleNetConnection ------------------------ *)
handleNetConnection(hostname, path) ==
    /\ last' =
         IF hostname = config.host
         THEN Dispatch("net", hostname, path, "end", NoRelay, "", 0,
                       redirectResponse(webHostname, path))
         ELSE IF hostname = apiHostname \/ hostname = webHostname
         THEN Dispatch("net", hostname, path, "end", NoRelay, "", 0,
                       redirectResponse(hostname, path))
         ELSE IF ~startsWith(path, AcmePrefix)
         THEN Dispatch("net", hostname, path, "end", NoRelay, "", 0,
                       errorResponse("Only ACME requests supported"))
         ELSE LET relay == MapGet(relays, hostname) IN
              IF relay # NoRelay
              THEN Dispatch("net", hostname, path, "relay", relay, hostname, 80, "")
              ELSE Dispatch("net", hostname, path, "end", NoRelay, "", 0,
                            errorResponse("Relay not connected"))
    /\ UNCHANGED <<config, relays, ws>>

(* ------------------------------ WebSocket ------------------------------ *)
\* webSocket.close(): starts the closing handshake of an open socket; the
\* 'close' event follows later (wsClose below)
close(w) ==
    IF w.readyState = "open" THEN [w EXCEPT !.readyState = "closing"] ELSE w

\* a handshake that ends in `return webSocket.close()`, logged with `reason`
reject(w, reason) == [close(w) EXCEPT !.pc = "done", !.result = reason]

\* mutant of authenticateRelayConnection: existingRelay is not looked at
authenticateRelayConnection_NoDupCheck(subdomain, username, apikey) ==
    /\ ws' = Append(ws,
              [subdomain |-> subdomain, username |-> username,
               apikey |-> apikey, hostname |-> relayHostname(subdomain, username),
               readyState |-> "open", closeListener |-> "none",
               pc |-> "query", result |-> "",
               queries |-> 1, compares |-> 0, dns |-> "none"])
    /\ last' = NoDispatch
    /\ UNCHANGED <<config, relays>>

(* ---------------------- authenticateRelayConnection -------------------- *)
\* the synchronous part, up to and including the call of db.run
authenticateRelayConnection(subdomain, username, apikey) ==
    /\ LET hostname == relayHostname(subdomain, username)
           existingRelay == MapGet(relays, hostname)
           webSocket ==
               [subdomain |-> subdomain, username |-> username,
                apikey |-> apikey, hostname |-> hostname,
                readyState |-> "open", closeListener |-> "none",
                pc |-> "received", result |-> "",
                queries |-> 0, compares |-> 0, dns |-> "none"]
       IN  ws' = Append(ws,
                 IF existingRelay # NoRelay
                 THEN reject(webSocket, "already exists")
                 ELSE [webSocket EXCEPT !.pc = "query", !.queries = 1])
    /\ last' = NoDispatch
    /\ UNCHANGED <<config, relays>>

\* mutant of handleRelayConnection: resolves the API hostname whether or
\* not DNS sync is configured.
handleRelayConnection_AlwaysDns(c, hostname) ==
    /\ relays' = MapSet(relays, hostname, c)
    /\ ws' = [ws EXCEPT ![c].pc = "done",
                        ![c].result = "accepted",
                        ![c].closeListener = "installed",
                        ![c].dns = "resolving"]

(* --------------------------- handleRelayConnection --------------------- *)
\* relays.set, webSocket.on('close', ...) and the call of Dns.resolve4
handleRelayConnection(c, hostname) ==
    /\ relays' = MapSet(relays, hostname, c)
    /\ ws' = [ws EXCEPT ![c].pc = "done",
                        ![c].result = "accepted",
                        ![c].closeListener = "installed",
                        ![c].dns = IF config.dnsZone THEN "resolving" ELSE "none"]

\* mutant of dbCallback: a user that is found is registered without its key
\* being compared
dbCallback_SkipCompare(c, err) ==
    /\ ws[c].pc = "query"
    /\ LET rows == dbRows(ws[c].username) IN
       IF err
       THEN /\ ws' = [ws EXCEPT ![c] = reject(@, "db query error")]
            /\ UNCHANGED relays
       ELSE IF Len(rows) = 0
       THEN /\ ws' = [ws EXCEPT ![c] = reject(@, "user not found")]
            /\ UNCHANGED relays
       ELSE handleRelayConnection(c, ws[c].hostname)
    /\ last' = NoDispatch
    /\ UNCHANGED config

\* the callback of db.run
dbCallback(c, err) ==
    /\ ws[c].pc = "query"
    /\ LET rows == dbRows(ws[c].username) IN
       IF err
       THEN ws' = [ws EXCEPT ![c] = reject(@, "db query error")]
       ELSE IF Len(rows) = 0
       THEN ws' = [ws EXCEPT ![c] = reject(@, "user not found")]
       ELSE ws' = [ws EXCEPT ![c].pc = "compare", ![c].compares = @ + 1]
    /\ last' = NoDispatch
    /\ UNCHANGED <<config, relays>>

\* mutant of bcryptCallback: `pass` is not looked at
bcryptCallback_IgnorePass(c) ==
    /\ ws[c].pc = "compare"
    /\ LET r == bcryptCompare(ws[c].apikey, dbRows(ws[c].username)[1].api_key) IN
       IF r.err
       THEN /\ ws' = [ws EXCEPT ![c] = reject(@, "bcrypt compare error")]
            /\ UNCHANGED relays
       ELSE handleRelayConnection(c, ws[c].hostname)
    /\ last' = NoDispatch
    /\ UNCHANGED config

\* mutant of bcryptCallback: a key that does not match sends the handshake
\* back to the query
bcryptCallback_RetryOnMismatch(c) ==
    /\ ws[c].pc = "compare"
    /\ LET r == bcryptCompare(ws[c].apikey, dbRows(ws[c].username)[1].api_key) IN
       IF r.err
       THEN /\ ws' = [ws EXCEPT ![c] = reject(@, "bcrypt compare error")]
            /\ UNCHANGED relays
       ELSE IF ~r.pass
       THEN /\ ws' = [ws EXCEPT ![c].pc = "query", ![c].compares = 0]
            /\ UNCHANGED relays
       ELSE handleRelayConnection(c, ws[c].hostname)
    /\ last' = NoDispatch
    /\ UNCHANGED config

\* the callback of Bcrypt.compare
bcryptCallback(c) ==
    /\ ws[c].pc = "compare"
    /\ LET r == bcryptCompare(ws[c].apikey, dbRows(ws[c].username)[1].api_key) IN
       IF r.err
       THEN /\ ws' = [ws EXCEPT ![c] = reject(@, "bcrypt compare error")]
            /\ UNCHANGED relays
       ELSE IF ~r.pass
       THEN /\ ws' = [ws EXCEPT ![c] = reject(@, "api key incorrect")]
            /\ UNCHANGED relays
       ELSE handleRelayConnection(c, ws[c].hostname)
    /\ last' = NoDispatch
    /\ UNCHANGED config

\* mutant of dnsCallback: a failed resolution takes the registration back
dnsCallback_UndoOnError(c, err) ==
    /\ ws[c].dns = "resolving"
    /\ IF err
       THEN /\ ws' = [ws EXCEPT ![c] = [close(@) EXCEPT !.dns = "error"]]
            /\ relays' = MapDelete(relays, ws[c].hostname)
       ELSE /\ ws' = [ws EXCEPT ![c].dns = "upserted"]
            /\ UNCHANGED relays
    /\ last' = NoDispatch
    /\ UNCHANGED config

\* the callback of Dns.resolve4
dnsCallback(c, err) ==
    /\ ws[c].dns = "resolving"
    /\ ws' = [ws EXCEPT ![c].dns = IF err THEN "error" ELSE "upserted"]
    /\ last' = NoDispatch
    /\ UNCHANGED <<config, relays>>

\* mutant of wsClose: the close listener leaves the map alone
wsClose_NoDelete(c) ==
    /\ ws[c].readyState \in {"open", "closing"}
    /\ ws' = [ws EXCEPT ![c].readyState = "closed",
                        ![c].closeListener =
                            IF @ = "installed" THEN "called" ELSE @]
    /\ last' = NoDispatch
    /\ UNCHANGED <<config, relays>>

\* mutant of wsClose: the map entry is deleted on the close of any WebSocket,
\* registered or not
wsClose_AlwaysDelete(c) ==
    /\ ws[c].readyState \in {"open", "closing"}
    /\ relays' = MapDelete(relays, ws[c].hostname)
    /\ ws' = [ws EXCEPT ![c].readyState = "closed",
                        ![c].closeListener =
                            IF @ = "installed" THEN "called" ELSE @]
    /\ last' = NoDispatch
    /\ UNCHANGED config

\* the 'close' event of a WebSocket: the remote end closed it, or the
\* closing handshake started by close() completed
wsClose(c) ==
    /\ ws[c].readyState \in {"open", "closing"}
    /\ IF ws[c].closeListener = "installed"
       THEN /\ relays' = MapDelete(relays, ws[c].hostname)
            /\ ws' = [ws EXCEPT ![c].readyState = "closed",
                                ![c].closeListener = "called"]
       ELSE /\ ws' = [ws EXCEPT ![c].readyState = "closed"]
            /\ UNCHANGED relays
    /\ last' = NoDispatch
    /\ UNCHANGED config

(* ----------------------------------------------------------------------- *)
Conns == 1..Len(ws)

\* a relay client connects: at most MaxConns of them in one behaviour
Connect ==
    /\ Len(ws) < MaxConns
    /\ \E h \in Headers :
           authenticateRelayConnection(h.subdomain, h.username, h.apikey)
DbDone == \E c \in Conns, err \in BOOLEAN : dbCallback(c, err)
BcryptDone == \E c \in Conns : bcryptCallback(c)
DnsDone == \E c \in Conns, err \in BOOLEAN : dnsCallback(c, err)
Closed == \E c \in Conns : wsClose(c)
\* the proxy servers hand in a socket; a dispatch writes nothing the service
\* reads, so dispatching from the states where `last` is clear reaches every
\* state that back-to-back dispatches reach
Tls ==
    /\ last = NoDispatch
    /\ \E h \in Hostnames : handleTlsConnection(h)
Net ==
    /\ last = NoDispatch
    /\ \E h \in Hostnames, p \in Paths : handleNetConnection(h, p)

Next ==
    \/ Connect
    \/ DbDone
    \/ BcryptDone
    \/ DnsDone
    \/ Closed
    \/ Tls
    \/ Net

Spec == Init /\ [][Next]_vars

\* db.run and Bcrypt.compare call back: a callback that is due is delivered
DbDoneOf(c) == c \in Conns /\ \E err \in BOOLEAN : dbCallback(c, err)
BcryptDoneOf(c) == c \in Conns /\ bcryptCallback(c)

LiveSpec ==
    /\ Spec
    /\ \A c \in 1..MaxConns : WF_vars(DbDoneOf(c)) /\ WF_vars(BcryptDoneOf(c))

(* ======================= properties of the service ===================== *)
\* relays.get(hostname)
lookup(h) == MapGet(relays, h)

Reserved == {apiHostname, webHostname}

RelayNotConnected == "HTTP/1.1 500 Relay not connected\r\n\r\nRelay not connected"
OnlyAcme ==
    "HTTP/1.1 500 Only ACME requests supported\r\n\r\nOnly ACME requests supported"

\* the paths of Paths under /.well-known/acme-challenge/
AcmePaths == {"/.well-known/acme-challenge/xyz"}

\* the handshakes the service turned down after it had queried the database
AuthRejections ==
    {"db query error", "user not found", "bcrypt compare error", "api key incorrect"}

\* the 'close' event of c is delivered in this step
Closes(c) == ws[c].readyState # "closed" /\ ws'[c].readyState = "closed"

\* C1: of two handshakes for one hostname that both authenticate, one is
\* closed by the service: no two accepted relays of one hostname are both
\* left with an open channel.
C1_OneLiveRelayPerHostname ==
    \A c1 \in Conns, c2 \in Conns :
        ( /\ c1 # c2
          /\ ws[c1].hostname = ws[c2].hostname
          /\ ws[c1].result = "accepted"
          /\ ws[c2].result = "accepted" )
        => (ws[c1].readyState # "open" \/ ws[c2].readyState # "open")

\* C2: the close listener of a relay removes the map entry of its hostname
\* only if the entry still holds that relay; when the entry holds another
\* relay the map is left as it is.
C2_UnregisterOnlyOwnEntry ==
    [][ \A c \in Conns :
            (Closes(c) /\ lookup(ws[c].hostname) # c) => relays' = relays ]_vars

\* C3 as stated: a TLS connection that follows the close of a registered
\* relay, with no relay registered for the hostname since, gets the
\* "Relay not connected" response.
C3_ClosedRelayNotConnected ==
    ( /\ last.op = "tls"
      /\ lookup(last.hostname) = NoRelay
      /\ \E c \in Conns : /\ ws[c].hostname = last.hostname
                          /\ ws[c].closeListener = "called" )
    => (last.to = "end" /\ last.data = RelayNotConnected)

\* C3, amended: when the channel of a registered relay closes, the lookup of
\* its hostname returns undefined; it stays undefined until a handshake for
\* that hostname is accepted; and a TLS connection for that hostname made in
\* between gets the "Relay not connected" response, unless the hostname is
\* the API or the Web hostname, and is never handed to a relay whose close
\* listener has run.
C3_ClosedRelayNotRouted ==
    [][ /\ \A c \in Conns :
              (Closes(c) /\ ws[c].closeListener = "installed")
              => MapGet(relays', ws[c].hostname) = NoRelay
        /\ \A h \in DOMAIN relays' :
              h \notin DOMAIN relays
              => \E c \in Conns : /\ ws[c].hostname = h
                                  /\ ws[c].result # "accepted"
                                  /\ ws'[c].result = "accepted"
        /\ ( /\ last'.op = "tls"
             /\ last'.hostname \notin Reserved
             /\ lookup(last'.hostname) = NoRelay
             /\ \E c \in Conns : /\ ws[c].hostname = last'.hostname
                                 /\ ws[c].closeListener = "called" )
           => (last'.to = "end" /\ last'.data = RelayNotConnected)
        /\ (last'.op = "tls" /\ last'.to = "relay")
           => ws[last'.relay].closeListener # "called" ]_vars

C3_Witness ==
    /\ last.op = "tls"
    /\ last.to = "end"
    /\ \E c \in Conns : /\ ws[c].hostname = last.hostname
                        /\ ws[c].closeListener = "called"
                        /\ ws[c].readyState = "closed"

\* C4: the map holds a relay only for a handshake whose user is in the users
\* table and whose api key hashes to the stored one; a handshake that met a
\* query error, an unknown user, a compare error or a wrong key has had
\* close() called on it, has no close listener and is not in the map.
C4_EntryOnlyForVerifiedCredentials ==
    /\ \A h \in DOMAIN relays :
          LET w == ws[relays[h]] IN
          /\ w.subdomain \o "." \o w.username \o "." \o config.host = h
          /\ w.result = "accepted"
          /\ w.username \in DOMAIN Users
          /\ w.apikey # << >>
          /\ Hash(w.apikey[1]) = Users[w.username]
    /\ \A c \in Conns :
          ( \/ ws[c].result \in AuthRejections
            \/ ws[c].username \notin DOMAIN Users
            \/ ws[c].apikey = << >>
            \/ Hash(ws[c].apikey[1]) # Users[ws[c].username] )
          => /\ \A h \in DOMAIN relays : relays[h] # c
             /\ ws[c].closeListener = "none"
             /\ ws[c].pc = "done" => ws[c].readyState # "open"

C4_Witness ==
    /\ \E c \in Conns : ws[c].result = "api key incorrect"
    /\ \E c \in Conns : ws[c].result = "accepted" /\ lookup(ws[c].hostname) = c

\* C5: a TLS connection for the API hostname goes to the API server and one
\* for the Web hostname to the Web server, never to a relay, whatever the
\* map holds.
C5_OwnHostnamesFirst ==
    last.op = "tls" =>
        /\ last.hostname = apiHostname
           => (last.to = "api" /\ last.relay = NoRelay)
        /\ (last.hostname = webHostname /\ last.hostname # apiHostname)
           => (last.to = "web" /\ last.relay = NoRelay)

C5_Witness ==
    /\ last.op = "tls"
    /\ last.hostname = apiHostname
    /\ last.to = "api"
    /\ lookup(apiHostname) # NoRelay

\* C6: a TLS connection for any other hostname gets the literal
\* "Relay not connected" response when the map has no relay for it, and
\* otherwise goes to the relay the map holds, tagged (hostname, 443).
C6_TlsRelayOrNotConnected ==
    (last.op = "tls" /\ last.hostname \notin Reserved) =>
        IF lookup(last.hostname) = NoRelay
        THEN /\ last.to = "end"
             /\ last.relay = NoRelay
             /\ last.data = RelayNotConnected
        ELSE /\ last.to = "relay"
             /\ last.relay = lookup(last.hostname)
             /\ last.tag = last.hostname
             /\ last.port = 443
             /\ last.data = ""

C6_Witness ==
    /\ last.op = "tls"
    /\ last.to = "relay"
    /\ \E c \in Conns : c # last.relay /\ ws[c].result = "accepted"

\* C7: a net connection for the base host, the API hostname or the Web
\* hostname is answered with a 301 and closed, for every path and whatever
\* the map holds: the base host is sent to the Web hostname, the other two
\* to themselves.
C7_OwnHostnamesRedirect ==
    (last.op = "net" /\ last.hostname \in Reserved \cup {config.host}) =>
        /\ last.to = "end"
        /\ last.relay = NoRelay
        /\ last.data =
             "HTTP/1.1 301 Moved Permanently\r\nLocation: https://"
             \o (IF last.hostname = config.host
                 THEN config.web \o "." \o config.host
                 ELSE last.hostname)
             \o last.path \o "\r\n\r\n"

C7_Witness ==
    /\ last.op = "net"
    /\ last.hostname = apiHostname
    /\ last.path \in AcmePaths
    /\ lookup(apiHostname) # NoRelay

\* C8: a net connection for any other hostname with a path outside
\* /.well-known/acme-challenge/ gets the literal "Only ACME requests
\* supported" response, a relay for the hostname or not.
C8_OnlyAcme ==
    ( /\ last.op = "net"
      /\ last.hostname \notin Reserved \cup {config.host}
      /\ last.path \notin AcmePaths )
    => /\ last.to = "end"
       /\ last.relay = NoRelay
       /\ last.data = OnlyAcme

C8_Witness ==
    /\ last.op = "net"
    /\ last.path = "/.well-known/acme-challenge"
    /\ last.data = OnlyAcme
    /\ lookup(last.hostname) # NoRelay

\* C9: a net connection for any other hostname with a path under
\* /.well-known/acme-challenge/ goes to the relay the map holds for the
\* hostname, tagged (hostname, 80), and gets the literal "Relay not
\* connected" response when the map holds none.
C9_AcmeToRelay ==
    ( /\ last.op = "net"
      /\ last.hostname \notin Reserved \cup {config.host}
      /\ last.path \in AcmePaths )
    => IF lookup(last.hostname) = NoRelay
       THEN /\ last.to = "end"
            /\ last.relay = NoRelay
            /\ last.data = RelayNotConnected
       ELSE /\ last.to = "relay"
            /\ last.relay = lookup(last.hostname)
            /\ last.tag = last.hostname
            /\ last.port = 80
            /\ last.data = ""

C9_Witness ==
    /\ last.op = "net"
    /\ last.to = "relay"
    /\ last.port = 80
    /\ \E c \in Conns : c # last.relay /\ ws[c].result = "accepted"

\* C10: a relay connection that arrives while the map holds an entry for
\* its hostname is turned down at once: close() is called on it, the map is
\* left as it is, and neither db.run nor Bcrypt.compare is ever called for it.
C10_DuplicateRejectedAtOnce ==
    [][ \A c \in 1..Len(ws') :
          /\ ( /\ c > Len(ws)
               /\ lookup(ws'[c].subdomain \o "." \o ws'[c].username
                         \o "." \o config.host) # NoRelay )
             => /\ ws'[c].result = "already exists"
                /\ ws'[c].readyState = "closing"
                /\ relays' = relays
          /\ ws'[c].result = "already exists"
             => /\ ws'[c].pc = "done"
                /\ ws'[c].queries = 0
                /\ ws'[c].compares = 0 ]_vars

C10_Witness ==
    \E c \in Conns :
        /\ ws[c].result = "already exists"
        /\ ws[c].readyState = "closed"
        /\ lookup(ws[c].hostname) # NoRelay

\* C11: when the address resolution that follows a registration fails, the
\* step leaves the map and the relay's channel as they were, and no upsert
\* is ever issued for that registration.
C11_DnsFailureSwallowed ==
    [][ \A c \in Conns :
          /\ (ws[c].dns = "resolving" /\ ws'[c].dns = "error")
             => /\ relays' = relays
                /\ ws'[c].readyState = ws[c].readyState
                /\ ws'[c].closeListener = ws[c].closeListener
          /\ ws[c].dns = "error" => ws'[c].dns = "error" ]_vars

C11_Witness ==
    \E c \in Conns :
        /\ config.dnsZone
        /\ ws[c].dns = "error"
        /\ ws[c].readyState = "open"
        /\ lookup(ws[c].hostname) = c

\* C12: once a relay is in the map, the lookup of its hostname returns that
\* relay until the relay's own channel closes: a step that removes or
\* replaces its entry is the 'close' event of that relay.
C12_EntryKeptUntilOwnClose ==
    [][ \A h \in DOMAIN relays :
          MapGet(relays', h) # relays[h] => Closes(relays[h]) ]_vars

\* C13: every relay in the map has an open channel.
C13_RegisteredRelaysAreOpen ==
    \A h \in DOMAIN relays : ws[relays[h]].readyState = "open"

\* the results of a handshake that was turned down
Rejections == AuthRejections \cup {"already exists"}

\* C14: a handshake goes from received to the query, from the query to the
\* compare and from there to accepted, or to rejected from any of them: the
\* compare starts only after the query returned a user, the relay is
\* registered only after the compare reported a match, and db.run and
\* Bcrypt.compare are each called at most once.
C14_HandshakeOrder ==
    [][ \A c \in 1..Len(ws') :
          /\ c > Len(ws) => ws'[c].pc \in {"query", "done"}
          /\ c <= Len(ws) =>
                \/ ws'[c].pc = ws[c].pc
                \/ ws[c].pc = "query" /\ ws'[c].pc \in {"compare", "done"}
                \/ ws[c].pc = "compare" /\ ws'[c].pc = "done"
          /\ ws'[c].pc = "query" => (ws'[c].queries = 1 /\ ws'[c].compares = 0)
          /\ ws'[c].pc = "compare"
             => /\ ws'[c].queries = 1
                /\ ws'[c].compares = 1
                /\ ws'[c].username \in DOMAIN Users
          /\ ws'[c].pc = "done"
             => /\ ws'[c].result \in Rejections \cup {"accepted"}
                /\ ws'[c].queries <= 1
                /\ ws'[c].compares <= ws'[c].queries
          /\ ws'[c].result = "accepted"
             => /\ ws'[c].pc = "done"
                /\ ws'[c].queries = 1
                /\ ws'[c].compares = 1
          /\ (c <= Len(ws) /\ ws[c].pc # "compare")
             => MapGet(relays', ws'[c].hostname) # c
                  \/ MapGet(relays, ws[c].hostname) = c ]_vars

C14_Witness ==
    /\ \E c \in Conns :
          ws[c].result = "accepted" /\ ws[c].queries = 1 /\ ws[c].compares = 1
    /\ \E c \in Conns :
          ws[c].result = "user not found" /\ ws[c].compares = 0

\* C15: the step that turns a handshake down, and the later 'close' event
\* of its WebSocket, leave the map as it was.
C15_RejectionLeavesMap ==
    [][ \A c \in 1..Len(ws') :
          /\ ( /\ ws'[c].result \in Rejections
               /\ (c > Len(ws) \/ ws[c].result # ws'[c].result) )
             => relays' = relays
          /\ ( /\ c <= Len(ws)
               /\ ws[c].result \in Rejections
               /\ Closes(c) )
             => relays' = relays ]_vars

C15_Witness ==
    \E c \in Conns, r \in Conns :
        /\ ws[c].result \in Rejections
        /\ ws[c].readyState = "closed"
        /\ r # c
        /\ ws[r].hostname = ws[c].hostname
        /\ lookup(ws[c].hostname) = r

\* a handshake for hostname h is under way and the map has no relay for h
PendingOnly(h) ==
    /\ lookup(h) = NoRelay
    /\ \E c \in Conns : ws[c].hostname = h /\ ws[c].pc \in {"query", "compare"}

\* C16 as stated, for the hostnames that are not the service's own: a TLS
\* or net connection for a hostname whose handshake is under way, and that
\* has no relay yet, gets the "Relay not connected" response.
C16_PendingNotConnected ==
    ( /\ last.op # "none"
      /\ last.hostname \notin Reserved
      /\ PendingOnly(last.hostname) )
    => (last.to = "end" /\ last.data = RelayNotConnected)

\* C16, amended: a connection for a hostname whose handshake is under way,
\* and that has no relay yet, is answered in the step that handles it and
\* is never kept for the handshake: a TLS connection and a net connection
\* for an ACME path get "Relay not connected", a net connection for another
\* path gets "Only ACME requests supported", and a connection for the API or
\* the Web hostname goes to the service itself (TLS) or is redirected (net).
C16_PendingAnsweredAtOnce ==
    (last.op # "none" /\ PendingOnly(last.hostname))
    => IF last.hostname \in Reserved
       THEN \/ last.op = "tls" /\ last.to \in {"api", "web"}
            \/ /\ last.op = "net"
               /\ last.to = "end"
               /\ last.data =
                    "HTTP/1.1 301 Moved Permanently\r\nLocation: https://"
                    \o last.hostname \o last.path \o "\r\n\r\n"
       ELSE /\ last.to = "end"
            /\ last.relay = NoRelay
            /\ last.data = IF last.op = "net" /\ last.path \notin AcmePaths
                           THEN OnlyAcme
                           ELSE RelayNotConnected

C16_Witness ==
    /\ last.op = "tls"
    /\ last.to = "end"
    /\ last.data = RelayNotConnected
    /\ PendingOnly(last.hostname)

\* C17: the map changes only when a handshake is accepted, which sets the
\* entry of its hostname, and when the close listener of a relay runs, which
\* deletes the entry of its hostname; handling a TLS or a net connection
\* leaves it as it was.
C17_MapWriters ==
    [][ /\ last'.op # "none" => relays' = relays
        /\ relays' # relays
           => \E c \in Conns :
                 \/ /\ ws[c].result # "accepted"
                    /\ ws'[c].result = "accepted"
                    /\ relays' = MapSet(relays, ws[c].hostname, c)
                 \/ /\ Closes(c)
                    /\ ws[c].closeListener = "installed"
                    /\ relays' = MapDelete(relays, ws[c].hostname) ]_vars

C17_Witness ==
    /\ last.op = "tls"
    /\ last.to = "relay"
    /\ lookup(last.hostname) = last.relay

\* C18: a handshake that is accepted or rejected stays so, with the same
\* result; and, db.run and Bcrypt.compare calling back, every handshake
\* comes to be accepted or rejected.
C18_HandshakeTerminates ==
    /\ [][ \A c \in Conns :
             ws[c].pc = "done"
             => /\ ws'[c].pc = "done"
                /\ ws'[c].result = ws[c].result
                /\ ws[c].result \in Rejections \cup {"accepted"} ]_vars
    /\ \A c \in 1..MaxConns :
          [](Len(ws) >= c => <>(Len(ws) >= c /\ ws[c].pc = "done"))

C18_Witness ==
    /\ Len(ws) = MaxConns
    /\ \A c \in Conns : ws[c].pc = "done"
    /\ \E c \in Conns : ws[c].result = "accepted"
    /\ \E c \in Conns : ws[c].result \in Rejections

\* C19: address resolution is started only by the step that accepts a
\* handshake and registers its hostname, and only with DNS sync configured;
\* an upsert only follows such a resolution, and once a resolution has ended
\* (upsert or error) nothing more is issued for that handshake; a rejected
\* handshake never resolves or upserts.
C19_UpsertOnlyAfterAccept ==
    [][ \A c \in Conns :
          /\ ws'[c].dns # "none"
             => /\ ws'[c].result = "accepted"
                /\ config.dnsZone
          /\ (ws[c].dns = "none" /\ ws'[c].dns # "none")
             => /\ ws'[c].dns = "resolving"
                /\ ws[c].pc # "done"
                /\ MapGet(relays', ws[c].hostname) = c
          /\ (ws[c].dns # "upserted" /\ ws'[c].dns = "upserted")
             => ws[c].dns = "resolving"
          /\ ws[c].dns = "resolving" => ws'[c].dns # "none"
          /\ ws[c].dns \in {"upserted", "error"} => ws'[c].dns = ws[c].dns
          /\ ws'[c].result \in Rejections => ws'[c].dns = "none" ]_vars

C19_Witness ==
    /\ \E c \in Conns : ws[c].dns = "upserted"
    /\ \E c \in Conns : ws[c].result \in Rejections /\ ws[c].dns = "none"

====
